---------------------------- MODULE Spec2Model ----------------------------
(***************************************************************************)
(* A model of TableFormatter (src/main/tablebeautifier/utils/              *)
(* table_formatter.py): the cheap gate is_table_like, the line scan and    *)
(* block loop of process_all_inputs, the per-line predicate                *)
(* _looks_like_table_line and the normalizer _clean_and_format_table.      *)
(*                                                                         *)
(* A Python str is a sequence of one-character strings; None is the        *)
(* one-element sequence NoneText, whose element is no character.           *)
(***************************************************************************)
EXTENDS Integers, Sequences, FiniteSets, TLC

(***************************************************************************)
(* Python str primitives                                                   *)
(***************************************************************************)
NL == "\n"
TAB == "\t"
SP == " "
\* the backtick, which no TLA+ string can hold, is the token "BT"
BT == "BT"
PIPE == "|"
COMMA == ","
SEMI == ";"
DASH == "-"
COLON == ":"

NoneText == <<"None">>

\* str.isspace of one character (also the class \s of re)
IsSpace(c) == c \in {SP, TAB, NL}

IsDigit(c) == c \in {"0", "1", "2", "3", "4", "5", "6", "7", "8", "9"}

\* the class [A-Za-z] of re
IsLetter(c) == c \in {"a", "b", "c", "d", "e", "f", "g", "h", "i", "j", "k", "l", "m",
                      "n", "o", "p", "q", "r", "s", "t", "u", "v", "w", "x", "y", "z",
                      "A", "B", "C", "D", "E", "F", "G", "H", "I", "J", "K", "L", "M",
                      "N", "O", "P", "Q", "R", "S", "T", "U", "V", "W", "X", "Y", "Z"}

\* s[i:j] of Python with 0 <= i, j counted from the left (1-based, inclusive here)
Slice(s, i, j) == IF i > j THEN <<>> ELSE SubSeq(s, i, j)

RECURSIVE LStripFrom(_, _)
LStripFrom(s, i) ==
    IF i > Len(s) THEN <<>>
    ELSE IF IsSpace(s[i]) THEN LStripFrom(s, i + 1)
    ELSE SubSeq(s, i, Len(s))

LStrip(s) == LStripFrom(s, 1)

RECURSIVE RStripTo(_, _)
RStripTo(s, j) ==
    IF j < 1 THEN <<>>
    ELSE IF IsSpace(s[j]) THEN RStripTo(s, j - 1)
    ELSE SubSeq(s, 1, j)

RStrip(s) == RStripTo(s, Len(s))

\* str.strip()
Strip(s) == LStrip(RStrip(s))

\* str.startswith / str.endswith
StartsWith(s, p) == Len(s) >= Len(p) /\ SubSeq(s, 1, Len(p)) = p
EndsWith(s, p) == Len(s) >= Len(p) /\ SubSeq(s, Len(s) - Len(p) + 1, Len(s)) = p

\* c in s
Contains(s, c) == \E i \in 1..Len(s) : s[i] = c

\* str.count of a one-character needle
Count(s, c) == Cardinality({i \in 1..Len(s) : s[i] = c})

\* str.split(c) for a one-character separator: always at least one part
RECURSIVE SplitAcc(_, _, _, _, _)
SplitAcc(s, c, i, cur, acc) ==
    IF i > Len(s) THEN Append(acc, cur)
    ELSE IF s[i] = c THEN SplitAcc(s, c, i + 1, <<>>, Append(acc, cur))
    ELSE SplitAcc(s, c, i + 1, Append(cur, s[i]), acc)

Split(s, c) == SplitAcc(s, c, 1, <<>>, <<>>)

\* str.splitlines(): breaks at "\n", no empty last line, [] for ""
SplitLines(s) ==
    IF s = <<>> THEN <<>>
    ELSE LET parts == Split(s, NL)
         IN  IF parts[Len(parts)] = <<>> THEN SubSeq(parts, 1, Len(parts) - 1)
             ELSE parts

\* sep.join(parts)
RECURSIVE JoinFrom(_, _, _)
JoinFrom(parts, sep, i) ==
    IF i > Len(parts) THEN <<>>
    ELSE IF i = Len(parts) THEN parts[i]
    ELSE parts[i] \o sep \o JoinFrom(parts, sep, i + 1)

Join(parts, sep) == JoinFrom(parts, sep, 1)

JoinNL(parts) == Join(parts, <<NL>>)

\* [p for p in parts if p]
NonEmptyParts(parts) == SelectSeq(parts, LAMBDA p : p # <<>>)

\* [p.strip() for p in parts]
StripAll(parts) == [i \in 1..Len(parts) |-> Strip(parts[i])]

\* [ln for ln in lines if ln.strip()]
NonBlankLines(lines) == SelectSeq(lines, LAMBDA ln : Strip(ln) # <<>>)

Max(a, b) == IF a >= b THEN a ELSE b

(***************************************************************************)
(* The regular expressions of TableFormatter                               *)
(***************************************************************************)
\* index of the first character at or after i that is no whitespace (Len+1 if none)
RECURSIVE SkipSpace(_, _)
SkipSpace(s, i) ==
    IF i <= Len(s) /\ IsSpace(s[i]) THEN SkipSpace(s, i + 1) ELSE i

\* index of the first character at or after i that is no dash
RECURSIVE SkipDash(_, _)
SkipDash(s, i) ==
    IF i <= Len(s) /\ s[i] = DASH THEN SkipDash(s, i + 1) ELSE i

\* :?-{2,}:?\s* from index i: the index after the match, or 0 when there is none
DividerCell(s, i) ==
    LET a == IF i <= Len(s) /\ s[i] = COLON THEN i + 1 ELSE i
        b == SkipDash(s, a)
        c == IF b <= Len(s) /\ s[b] = COLON THEN b + 1 ELSE b
    IN  IF b - a >= 2 THEN SkipSpace(s, c) ELSE 0

\* (\|\s*:?-{2,}:?\s*)*\|?\s*$ from index i
RECURSIVE DividerRest(_, _)
DividerRest(s, i) ==
    IF i > Len(s) THEN TRUE
    ELSE IF s[i] # PIPE THEN FALSE
    ELSE LET j == SkipSpace(s, i + 1)
         IN  IF j > Len(s) THEN TRUE
             ELSE LET k == DividerCell(s, j)
                  IN  k # 0 /\ DividerRest(s, k)

\* _md_divider_re.match(s): ^\s*\|?\s*:?-{2,}:?\s*(\|\s*:?-{2,}:?\s*)*\|?\s*$
MdDivider(s) ==
    LET a == SkipSpace(s, 1)
        b == IF a <= Len(s) /\ s[a] = PIPE THEN SkipSpace(s, a + 1) ELSE a
        c == DividerCell(s, b)
    IN  c # 0 /\ DividerRest(s, c)

\* _leading_pipe_re.sub("", s): ^\s*\|\s*
LeadingPipeSub(s) ==
    LET a == SkipSpace(s, 1)
    IN  IF a <= Len(s) /\ s[a] = PIPE
        THEN Slice(s, SkipSpace(s, a + 1), Len(s))
        ELSE s

\* _trailing_pipe_re.sub("", s): \s*\|\s*$
TrailingPipeSub(s) ==
    LET r == RStrip(s)
    IN  IF r # <<>> /\ r[Len(r)] = PIPE
        THEN RStrip(SubSeq(r, 1, Len(r) - 1))
        ELSE s

\* _multi_space_re.search(s): \s{2,}
HasMultiSpace(s) ==
    \E i \in 1..(Len(s) - 1) : IsSpace(s[i]) /\ IsSpace(s[i + 1])

\* _intra_token_multispace_re.search(s): \S\s{2,}\S
HasIntraMultiSpace(s) ==
    \E i \in 1..Len(s) : \E j \in (i + 3)..Len(s) :
        /\ ~IsSpace(s[i])
        /\ ~IsSpace(s[j])
        /\ \A k \in (i + 1)..(j - 1) : IsSpace(s[k])

\* re.split(r"\s{2,}", s): the separators are the whitespace runs of length >= 2
RECURSIVE MultiSpaceSplitAcc(_, _, _, _)
MultiSpaceSplitAcc(s, i, cur, acc) ==
    IF i > Len(s) THEN Append(acc, cur)
    ELSE LET j == SkipSpace(s, i)
         IN  IF j - i >= 2 THEN MultiSpaceSplitAcc(s, j, <<>>, Append(acc, cur))
             ELSE MultiSpaceSplitAcc(s, i + 1, Append(cur, s[i]), acc)

MultiSpaceSplit(s) == MultiSpaceSplitAcc(s, 1, <<>>, <<>>)

\* the end (exclusive) of a match of \s*<d>\s* that starts at i, or 0
DelimMatchEnd(s, d, i) ==
    LET j == SkipSpace(s, i)
    IN  IF IsSpace(d)
        THEN \* the whitespace run from i matches when it holds a d
             IF \E k \in i..(j - 1) : s[k] = d THEN j ELSE 0
        ELSE IF j <= Len(s) /\ s[j] = d THEN SkipSpace(s, j + 1) ELSE 0

\* re.split(rf"\s*{re.escape(delim)}\s*", s)
RECURSIVE DelimSplitAcc(_, _, _, _, _)
DelimSplitAcc(s, d, i, cur, acc) ==
    IF i > Len(s) THEN Append(acc, cur)
    ELSE LET e == DelimMatchEnd(s, d, i)
         IN  IF e # 0 THEN DelimSplitAcc(s, d, e, <<>>, Append(acc, cur))
             ELSE DelimSplitAcc(s, d, i + 1, Append(cur, s[i]), acc)

DelimSplit(s, d) == DelimSplitAcc(s, d, 1, <<>>, <<>>)

(***************************************************************************)
(* TableFormatter.__init__                                                 *)
(***************************************************************************)
min_columns_for_detection == 3
min_delims_for_detection == 2
delimiters == <<COMMA, TAB, SEMI, PIPE>>
SampleSize == 6

(***************************************************************************)
(* _looks_like_table_line                                                  *)
(***************************************************************************)
\* the pipe branch: strip the outer pipes, split, at least two non-empty cells
PipeRowLooksLikeTable(s) ==
    LET inner == TrailingPipeSub(LeadingPipeSub(s))
        parts == StripAll(Split(inner, PIPE))
    IN  Len(NonEmptyParts(parts)) >= 2

\* one turn of the loop over self._delimiters
DelimLooksLikeTable(s, d) ==
    /\ Count(s, d) >= min_delims_for_detection
    /\ Len(NonEmptyParts(StripAll(DelimSplit(s, d)))) >= min_columns_for_detection

\* the multi-space branch
MultiSpaceLooksLikeTable(s) ==
    /\ HasIntraMultiSpace(s)
    /\ Len(NonEmptyParts(StripAll(MultiSpaceSplit(s)))) >= min_columns_for_detection

\* a mutant of looks_like_table_line: a pipe is a delimiter like the others
LooksLikeTableLineNoPipeBranch(line) ==
    IF line = <<>> \/ Strip(line) = <<>> THEN FALSE
    ELSE LET s == Strip(line)
         IN  \/ \E k \in 1..Len(delimiters) : DelimLooksLikeTable(s, delimiters[k])
             \/ MultiSpaceLooksLikeTable(s)

looks_like_table_line(line) ==
    IF line = <<>> \/ Strip(line) = <<>> THEN FALSE
    ELSE LET s == Strip(line)
         IN  IF StartsWith(s, <<PIPE>>) \/ Contains(s, PIPE)
             THEN PipeRowLooksLikeTable(s)
             ELSE \/ \E k \in 1..Len(delimiters) : DelimLooksLikeTable(s, delimiters[k])
                  \/ MultiSpaceLooksLikeTable(s)

(***************************************************************************)
(* is_table_like                                                           *)
(***************************************************************************)
Fence == <<BT, BT, BT>>

\* t[3:-3]
Unfence(t) == Slice(t, 4, Len(t) - 3)

\* a mutant of GateText: the fence is left in place
GateTextKeepsFence(text) == Strip(text)

\* lines 55-58: strip, and drop a fence that wraps the whole text
GateText(text) ==
    LET t == Strip(text)
    IN  IF StartsWith(t, Fence) /\ EndsWith(t, Fence) THEN Strip(Unfence(t)) ELSE t

\* lines 67-72: some delimiter occurs at least twice on enough sampled lines
DelimiterSignal(sample_lines) ==
    \E k \in 1..Len(delimiters) :
        LET good == Cardinality({i \in 1..Len(sample_lines) :
                       Count(sample_lines[i], delimiters[k]) >= min_delims_for_detection})
        IN  good >= Max(1, Len(sample_lines) \div 2)

\* lines 75-77
MultiSpaceSignal(sample_lines) ==
    LET ms == Cardinality({i \in 1..Len(sample_lines) : HasIntraMultiSpace(sample_lines[i])})
    IN  ms >= Max(1, Len(sample_lines) \div 2)

\* lines 80-81
MarkdownSignal(lines) ==
    Len(lines) >= 2 /\ Contains(lines[1], PIPE) /\ MdDivider(lines[2])

\* a mutant of Falsy: None is not taken for empty
FalsyOnlyEmpty(t) == t = <<>>

\* not text
Falsy(t) == t = NoneText \/ t = <<>>

is_table_like(text) ==
    IF Falsy(text) \/ Strip(text) = <<>> THEN FALSE
    ELSE LET lines == NonBlankLines(SplitLines(GateText(text)))
             sample_lines == SubSeq(lines, 1, IF Len(lines) < SampleSize THEN Len(lines) ELSE SampleSize)
         IN  IF Len(lines) < 2 THEN FALSE
             ELSE \/ DelimiterSignal(sample_lines)
                  \/ MultiSpaceSignal(sample_lines)
                  \/ MarkdownSignal(lines)


(***************************************************************************)
(* _clean_and_format_table: the parsed grid                                *)
(*                                                                         *)
(* A cell is a str or NaN (pandas' missing value).  A frame is a record    *)
(* [names, rows]: the column labels and the rows, each a sequence of       *)
(* cells.  The inputs hold no quote character, so read_csv's quoting is    *)
(* not modelled.                                                           *)
(***************************************************************************)
NaN == <<"NaN">>

\* the separator r"\s{2,}" that _detect_delimiter can return
MultiSpaceSep == "\\s{2,}"

\* lines 207-212: strip, drop a leading and a trailing fence, unwrap `code`
StripFenceStart(b) == IF StartsWith(b, Fence) THEN Slice(b, 4, Len(b)) ELSE b
StripFenceEnd(b) == IF EndsWith(b, Fence) THEN Slice(b, 1, Len(b) - 3) ELSE b

\* index of the next backtick at or after i, or 0
RECURSIVE NextBacktick(_, _)
NextBacktick(s, i) ==
    IF i > Len(s) THEN 0
    ELSE IF s[i] = BT THEN i
    ELSE NextBacktick(s, i + 1)

\* _inline_code_re.sub(r"\1", s): `([^`]*)` loses its two backticks
RECURSIVE RemoveInlineCodeFrom(_, _)
RemoveInlineCodeFrom(s, i) ==
    LET a == NextBacktick(s, i)
        b == IF a = 0 THEN 0 ELSE NextBacktick(s, a + 1)
    IN  IF b = 0 THEN Slice(s, i, Len(s))
        ELSE Slice(s, i, a - 1) \o Slice(s, a + 1, b - 1) \o RemoveInlineCodeFrom(s, b + 1)

RemoveInlineCode(s) == RemoveInlineCodeFrom(s, 1)

CleanBlock(raw_table) ==
    RemoveInlineCode(StripFenceEnd(StripFenceStart(Strip(raw_table))))

\* line 214
BlockLines(raw_table) == SplitLines(CleanBlock(raw_table))

\* line 217
AnyDivider(ls) == \E i \in 1..Len(ls) : MdDivider(ls[i])

has_md_divider(raw_table) == AnyDivider(BlockLines(raw_table))

\* lines 222-223
StripOuterPipes(ls) == [i \in 1..Len(ls) |-> TrailingPipeSub(LeadingPipeSub(ls[i]))]

\* lines 219-223
cleaned_lines(raw_table) ==
    StripOuterPipes(SelectSeq(BlockLines(raw_table), LAMBDA ln : ~MdDivider(ln)))

\* line 226
table_text(raw_table) == Strip(JoinNL(cleaned_lines(raw_table)))

\* lines 342-348: the first non-empty line, stripped
FirstNonEmptyLine(text) ==
    LET nb == NonBlankLines(SplitLines(text))
    IN  IF nb # <<>> THEN Strip(nb[1]) ELSE Strip(text)

\* max(counts.items(), key=...): the first delimiter, in the order of
\* self._delimiters, whose count is the largest
BestDelimiter(first) ==
    LET k == CHOOSE k \in 1..Len(delimiters) :
                 /\ \A j \in 1..Len(delimiters) :
                        Count(first, delimiters[k]) >= Count(first, delimiters[j])
                 /\ \A j \in 1..(k - 1) :
                        Count(first, delimiters[j]) < Count(first, delimiters[k])
    IN  delimiters[k]

\* lines 356-365, given the first line and the delimiter of the largest count
DelimiterFor(first, best) ==
    IF HasMultiSpace(first) /\ Count(first, best) < 2 THEN MultiSpaceSep
    ELSE IF Count(first, best) >= 1 THEN best
    ELSE COMMA

DelimiterOfLine(first) == DelimiterFor(first, BestDelimiter(first))

detect_delimiter(text) == DelimiterOfLine(FirstNonEmptyLine(text))

\* skipinitialspace=True: the spaces that start a field are skipped
RECURSIVE SkipInitialSpace(_)
SkipInitialSpace(f) ==
    IF f # <<>> /\ f[1] = SP THEN SkipInitialSpace(Tail(f)) ELSE f

\* an empty field is read as NaN
FieldCell(f) == IF f = <<>> THEN NaN ELSE f

SkipInitialSpaces(parts) == [i \in 1..Len(parts) |-> SkipInitialSpace(parts[i])]

FieldCells(parts) == [i \in 1..Len(parts) |-> FieldCell(parts[i])]

\* the fields read_csv finds on one line
LineFields(line, delim) ==
    IF delim = MultiSpaceSep
    THEN FieldCells(MultiSpaceSplit(Strip(line)))
    ELSE FieldCells(SkipInitialSpaces(Split(line, delim)))

FieldsOfLines(ls, delim) == [i \in 1..Len(ls) |-> LineFields(ls[i], delim)]

\* the rows read_csv tokenizes (skip_blank_lines=True), not yet of one width
RawRows(text, delim) == FieldsOfLines(NonBlankLines(SplitLines(text)), delim)

\* both engines raise ParserError ("Expected n fields in line k, saw m") when
\* a line holds more fields than the first line
ReadCsvRaises(rr) == \E i \in 1..Len(rr) : Len(rr[i]) > Len(rr[1])

\* a short line is filled with NaN up to the width w of the first
PadRows(rr, w) ==
    [i \in 1..Len(rr) |-> [j \in 1..w |-> IF j <= Len(rr[i]) THEN rr[i][j] ELSE NaN]]

\* the grid read_csv returns for the tokenized rows
read_csv(rr) == PadRows(rr, IF rr = <<>> THEN 0 ELSE Len(rr[1]))

Width(rows) == IF rows = <<>> THEN 0 ELSE Len(rows[1])

\* the j-th items of a sequence of indices kept, in order
RECURSIVE KeepIndices(_, _, _)
KeepIndices(seq, keep, j) ==
    IF j > Len(seq) THEN <<>>
    ELSE IF j \in keep THEN <<seq[j]>> \o KeepIndices(seq, keep, j + 1)
    ELSE KeepIndices(seq, keep, j + 1)

\* df.dropna(axis=1, how="all"): a column stays when some row holds a value in
\* it; a frame of no rows loses every column
dropna_columns(df) ==
    LET keep == {j \in 1..Len(df.names) : \E i \in 1..Len(df.rows) : df.rows[i][j] # NaN}
    IN  [names |-> KeepIndices(df.names, keep, 1),
         rows |-> [i \in 1..Len(df.rows) |-> KeepIndices(df.rows[i], keep, 1)]]


(***************************************************************************)
(* _clean_and_format_table: header, index column, numeric columns          *)
(***************************************************************************)
DigitChars == <<"0", "1", "2", "3", "4", "5", "6", "7", "8", "9">>

\* str(n) for n >= 0
RECURSIVE IntToStr(_)
IntToStr(n) ==
    IF n < 10 THEN <<DigitChars[n + 1]>>
    ELSE Append(IntToStr(n \div 10), DigitChars[(n % 10) + 1])

UpperChars == <<"A", "B", "C", "D", "E", "F", "G", "H", "I", "J", "K", "L", "M",
                "N", "O", "P", "Q", "R", "S", "T", "U", "V", "W", "X", "Y", "Z">>
LowerChars == <<"a", "b", "c", "d", "e", "f", "g", "h", "i", "j", "k", "l", "m",
                "n", "o", "p", "q", "r", "s", "t", "u", "v", "w", "x", "y", "z">>

LowerChar(c) ==
    IF \E k \in 1..26 : UpperChars[k] = c
    THEN LowerChars[CHOOSE k \in 1..26 : UpperChars[k] = c]
    ELSE c

\* str.lower()
Lower(s) == [i \in 1..Len(s) |-> LowerChar(s[i])]

\* str(v).strip() of a cell: the missing value prints as nan
CellStr(v) == IF v = NaN THEN <<"n", "a", "n">> ELSE Strip(v)

\* index of the first character at or after i that is no digit
RECURSIVE SkipDigits(_, _)
SkipDigits(s, i) ==
    IF i <= Len(s) /\ IsDigit(s[i]) THEN SkipDigits(s, i + 1) ELSE i

\* (?:,\d{3})* from index i, as far as it goes
RECURSIVE SkipGroups(_, _)
SkipGroups(s, i) ==
    IF /\ i + 3 <= Len(s)
       /\ s[i] = COMMA
       /\ IsDigit(s[i + 1]) /\ IsDigit(s[i + 2]) /\ IsDigit(s[i + 3])
    THEN SkipGroups(s, i + 4)
    ELSE i

\* (?:\.\d+)?$ from index i
FractionToEnd(s, i) ==
    \/ i > Len(s)
    \/ /\ s[i] = "."
       /\ i + 1 <= Len(s)
       /\ SkipDigits(s, i + 1) > Len(s)

\* the digits start at a and end before d; the comma groups end before g
NumericTokenFrom(s, a, d, g) ==
    \/ d - a \in 1..3 /\ g > d /\ FractionToEnd(s, g)
    \/ d - a >= 1 /\ FractionToEnd(s, d)

NumericTokenAfterSign(s, a) == NumericTokenFrom(s, a, SkipDigits(s, a), SkipGroups(s, SkipDigits(s, a)))

\* is_numeric_token: fullmatch [+-]?(?:\d{1,3}(?:,\d{3})+|\d+)(?:\.\d+)?
is_numeric_token(s) ==
    NumericTokenAfterSign(s, IF s # <<>> /\ s[1] \in {"+", "-"} THEN 2 ELSE 1)

CellStrs(row) == [j \in 1..Len(row) |-> CellStr(row[j])]

\* line 420, for the stripped texts of the first two rows
HeaderVsData(row0, row1) ==
    LET non_numeric0 == Cardinality({j \in 1..Len(row0) :
                            row0[j] # <<>> /\ ~is_numeric_token(row0[j])})
        numeric1 == Cardinality({j \in 1..Len(row1) :
                            row1[j] # <<>> /\ is_numeric_token(row1[j])})
        total0 == Cardinality({j \in 1..Len(row0) : row0[j] # <<>>})
        total1 == Cardinality({j \in 1..Len(row1) : row1[j] # <<>>})
    IN  IF total0 = 0 \/ total1 = 0 THEN FALSE
        ELSE 10 * non_numeric0 >= 6 * total0 /\ 2 * numeric1 >= total1

\* lines 400-420
first_row_header_vs_second_row_data(rows) ==
    IF Len(rows) < 2 THEN FALSE
    ELSE HeaderVsData(CellStrs(rows[1]), CellStrs(rows[2]))

\* \w of re
IsWordChar(c) == IsLetter(c) \/ IsDigit(c) \/ c = "_"

\* one cell of the first row counts as text
TextLike(s) ==
    \/ \E i \in 1..Len(s) : IsLetter(s[i])
    \/ /\ ~\E i \in 1..Len(s) : IsDigit(s[i])
       /\ \E i \in 1..Len(s) : ~IsWordChar(s[i]) /\ ~IsSpace(s[i])

NanOrNull == {<<"n", "a", "n">>, <<"n", "u", "l", "l">>}

\* lines 377-398, for the stripped texts of the first row
MostlyText(vals) ==
    LET counted == {j \in 1..Len(vals) : vals[j] # <<>> /\ Lower(vals[j]) \notin NanOrNull}
        text_like == Cardinality({j \in counted : TextLike(vals[j])})
        total == Cardinality(counted)
    IN  IF total = 0 THEN FALSE ELSE 100 * text_like >= 65 * total

\* lines 367-398
first_row_looks_like_header(first_row_values) ==
    IF first_row_values = <<>> THEN FALSE ELSE MostlyText(CellStrs(first_row_values))

\* a mutant of header_like: a divider line does not force the header
HeaderLikeNotForced(raw_table, rows) ==
    IF Len(rows) >= 2 THEN first_row_header_vs_second_row_data(rows)
    ELSE first_row_looks_like_header(rows[1])

\* lines 260-272
header_like(raw_table, rows) ==
    IF has_md_divider(raw_table) THEN TRUE
    ELSE IF Len(rows) >= 2 THEN first_row_header_vs_second_row_data(rows)
    ELSE first_row_looks_like_header(rows[1])

\* f"Column_{i+1}" for the 1-based position n
ColumnName(n) == <<"C", "o", "l", "u", "m", "n", "_">> \o IntToStr(n)

\* lines 276-278
HeaderValues(vals) ==
    [j \in 1..Len(vals) |-> IF vals[j] # <<>> THEN vals[j] ELSE ColumnName(j)]

\* lines 274-283
WithHeader(raw_table, df) ==
    IF header_like(raw_table, df.rows)
    THEN [names |-> HeaderValues(CellStrs(df.rows[1])), rows |-> Tail(df.rows)]
    ELSE [names |-> [j \in 1..Len(df.names) |-> ColumnName(j)], rows |-> df.rows]

ROW_COLUMN_NAMES == {<<"#">>, <<"r", "o", "w">>, <<"i", "d">>, <<"i", "n", "d", "e", "x">>}

\* lines 422-436
has_row_index_column(df) ==
    IF Len(df.names) = 0 THEN FALSE
    ELSE Lower(Strip(df.names[1])) \in ROW_COLUMN_NAMES

IndexName == <<"I", "n", "d", "e", "x">>

\* df.insert(0, "Index", ...) raises ValueError when a column has that name
InsertRaises(df) ==
    ~has_row_index_column(df) /\ \E j \in 1..Len(df.names) : df.names[j] = IndexName

\* lines 289-291
WithIndex(df) ==
    IF has_row_index_column(df) THEN df
    ELSE [names |-> <<IndexName>> \o df.names,
          rows |-> [i \in 1..Len(df.rows) |-> <<IntToStr(i)>> \o df.rows[i]]]


\* pd.NA, the value cleaned holds for a cell that is empty once stripped
NA == <<"NA">>

\* lines 302: astype(str) (the missing value becomes the text nan), strip, "" -> NA
Cleaned(v) == IF CellStr(v) = <<>> THEN NA ELSE CellStr(v)

\* \d,\d in s
HasDigitCommaDigit(s) ==
    \E i \in 1..(Len(s) - 2) : IsDigit(s[i]) /\ s[i + 1] = COMMA /\ IsDigit(s[i + 2])

RemoveCommas(s) == SelectSeq(s, LAMBDA c : c # COMMA)

\* what pd.to_numeric parses among the texts the inputs can hold:
\* [+-]?(\d+(\.\d*)?|\.\d+) (an exponent, inf and hex digits need other letters)
ParsesNumeric(s) ==
    LET a == IF s # <<>> /\ s[1] \in {"+", "-"} THEN 2 ELSE 1
        d == SkipDigits(s, a)
    IN  \/ d > a /\ d > Len(s)
        \/ d > a /\ s[d] = "." /\ SkipDigits(s, d + 1) > Len(s)
        \/ d = a /\ d <= Len(s) /\ s[d] = "." /\ d + 1 <= Len(s) /\ SkipDigits(s, d + 1) > Len(s)

\* the rows' cells of column j, cleaned
CleanedColumn(df, j) == [i \in 1..Len(df.rows) |-> Cleaned(df.rows[i][j])]

\* lines 304-307
Candidate(col) ==
    IF \E i \in 1..Len(col) : col[i] # NA /\ HasDigitCommaDigit(col[i])
    THEN [i \in 1..Len(col) |-> IF col[i] = NA THEN NA ELSE RemoveCommas(col[i])]
    ELSE col

\* numeric.notna(): the positions pd.to_numeric parses
ParsedAt(cand) == {i \in 1..Len(cand) : cand[i] # NA /\ ParsesNumeric(cand[i])}

\* lines 310-312, given the candidate column
NumericRatioHolds(col, cand) ==
    LET non_na == Cardinality(ParsedAt(cand))
        non_empty == Cardinality({i \in 1..Len(col) : col[i] # NA})
    IN  non_empty > 0 /\ 10 * non_na >= 6 * non_empty

\* lines 308-312: the column is replaced by its numeric reading
IsNumericColumn(col) == NumericRatioHolds(col, Candidate(col))

\* drop the zeros that start the digits of s, keeping one digit
RECURSIVE DropLeadingZeros(_)
DropLeadingZeros(s) ==
    IF Len(s) > 1 /\ s[1] = "0" THEN DropLeadingZeros(Tail(s)) ELSE s

RECURSIVE DropTrailingZeros(_)
DropTrailingZeros(s) ==
    IF Len(s) > 0 /\ s[Len(s)] = "0" THEN DropTrailingZeros(SubSeq(s, 1, Len(s) - 1)) ELSE s

IsAllZeros(s) == \A i \in 1..Len(s) : s[i] = "0"

\* how to_csv writes the number a parsed text stands for: as an integer when
\* the column is int64 (asInt), else as a float
NumberText(s, asInt) ==
    LET a == IF s[1] \in {"+", "-"} THEN 2 ELSE 1
        d == SkipDigits(s, a)
        ip == IF d > a THEN DropLeadingZeros(SubSeq(s, a, d - 1)) ELSE <<"0">>
        fp0 == IF d <= Len(s) THEN DropTrailingZeros(Slice(s, d + 1, Len(s))) ELSE <<>>
        fp == IF fp0 = <<>> THEN <<"0">> ELSE fp0
        neg == s[1] = "-" /\ ~(asInt /\ IsAllZeros(ip))
        sign == IF neg THEN <<"-">> ELSE <<>>
    IN  IF asInt THEN sign \o ip ELSE sign \o ip \o <<".">> \o fp

\* a numeric column is int64 when every cell parsed to an integer, else float64
IsIntColumn(cand) ==
    /\ ParsedAt(cand) = 1..Len(cand)
    /\ \A i \in 1..Len(cand) : ~Contains(cand[i], ".")

NumericOut(cand, parsed, asInt) ==
    [i \in 1..Len(cand) |-> IF i \in parsed THEN NumberText(cand[i], asInt) ELSE <<>>]

TextOut(col) == [i \in 1..Len(col) |-> IF col[i] = NA THEN <<>> ELSE col[i]]

ColumnOutFor(col, cand) ==
    IF NumericRatioHolds(col, cand)
    THEN NumericOut(cand, ParsedAt(cand), IsIntColumn(cand))
    ELSE TextOut(col)

\* the texts to_csv writes for one column (lines 298-318)
ColumnOut(col) == ColumnOutFor(col, Candidate(col))

\* a column label that occurs twice: df[col] is then a frame, .str raises and
\* line 318 keeps astype(str) of the cells
IsDuplicateName(df, j) == \E k \in 1..Len(df.names) : k # j /\ df.names[k] = df.names[j]

AsTypeStr(v) == IF v = NaN THEN <<"n", "a", "n">> ELSE v

ColumnsOut(df) ==
    [j \in 1..Len(df.names) |->
        IF IsDuplicateName(df, j)
        THEN [i \in 1..Len(df.rows) |-> AsTypeStr(df.rows[i][j])]
        ELSE ColumnOut(CleanedColumn(df, j))]

Transposed(df, out) ==
    [names |-> df.names,
     rows |-> [i \in 1..Len(df.rows) |-> [j \in 1..Len(df.names) |-> out[j][i]]]]

\* lines 298-318 over the whole frame: the cells as to_csv will write them
Coerced(df) == Transposed(df, ColumnsOut(df))

\* line 321: after the coercion only a frame of no rows has an all-missing column
FinalDrop(df) == IF df.rows = <<>> THEN [names |-> <<>>, rows |-> <<>>] ELSE df

QUOTE == "\""

\* every quote written twice
RECURSIVE DoubleQuotes(_)
DoubleQuotes(t) ==
    IF t = <<>> THEN <<>>
    ELSE (IF t[1] = QUOTE THEN <<QUOTE, QUOTE>> ELSE <<t[1]>>) \o DoubleQuotes(Tail(t))

\* csv's QUOTE_MINIMAL
CsvField(f) ==
    IF Contains(f, COMMA) \/ Contains(f, QUOTE) \/ Contains(f, NL)
    THEN <<QUOTE>> \o DoubleQuotes(f) \o <<QUOTE>>
    ELSE f

CsvLine(fields) == Join([j \in 1..Len(fields) |-> CsvField(fields[j])], <<COMMA>>)

\* lines 324-327: df.to_csv(index=False), the last newline trimmed
to_csv(df) ==
    IF df.names = <<>> THEN <<>>
    ELSE JoinNL(<<CsvLine(df.names)>> \o [i \in 1..Len(df.rows) |-> CsvLine(df.rows[i])])

EmptyResult == [kind |-> "ok", csv |-> <<>>, rows |-> 0, cols |-> 0]
Raised == [kind |-> "raise", csv |-> <<>>, rows |-> 0, cols |-> 0]

\* the frame of a grid, its columns labelled by position
Frame(rows) == [names |-> [j \in 1..Width(rows) |-> IntToStr(j - 1)], rows |-> rows]

\* lines 329-331
Result(df) == [kind |-> "ok", csv |-> to_csv(df), rows |-> Len(df.rows), cols |-> Len(df.names)]

\* lines 288-331, for the frame df left by the header handling
FormatHeaded(df) ==
    IF InsertRaises(df) THEN Raised
    ELSE Result(FinalDrop(Coerced(WithIndex(df))))

\* lines 257-331, for the frame df read at line 256
FormatFrame(raw_table, df) ==
    IF Len(df.names) = 0 \/ Len(df.rows) = 0 THEN EmptyResult
    ELSE FormatHeaded(dropna_columns(WithHeader(raw_table, df)))

\* lines 237-331, for the rows rr that read_csv tokenizes
FormatRows(raw_table, rr) ==
    IF ReadCsvRaises(rr) THEN Raised
    ELSE FormatFrame(raw_table, dropna_columns(Frame(read_csv(rr))))

\* lines 227-331, for the text tt handed to pandas
FormatText(raw_table, tt) ==
    IF tt = <<>> THEN EmptyResult
    ELSE FormatRows(raw_table, RawRows(tt, detect_delimiter(tt)))

\* _clean_and_format_table: (csv_str, rows, cols), or the exception it raises
clean_and_format_table(raw_table) == FormatText(raw_table, table_text(raw_table))

(***************************************************************************)
(* process_all_inputs as a state machine                                   *)
(***************************************************************************)
VARIABLES
    text,                    \* the argument: a str, or NoneText
    gate,                    \* "unset", or "True" / "False": what is_table_like(text) returned
    pc,                      \* "start", "scan", "normalize", "done", "raised"
    lines,                   \* top_text.splitlines()
    idx,                     \* 1-based position of the scan in lines
    current_table_lines,
    current_context_lines,
    tables,                  \* pairs <<raw_table, context_before>>
    trailing_context_lines,
    bi,                      \* 1-based position of the block loop in tables
    processed_tables,        \* tuples <<context, csv_str, rows, cols>>
    final_context,
    previous,                \* <<rows, cols>> of the run whose csv_str is now text, or <<>>
    bot_user_id,             \* what register_handlers cached: a user id, or NoneText
    hpc,                     \* Unregistered, Idle, or <<handler, ts>> of the call that is running
    inbox,                   \* the events Slack has sent and no handler has taken: <<type, ts>>
    posted,                  \* the texts of the messages users posted; ts is the position
    sent                     \* what the handlers sent to Slack: <<ts, handler, what>>

\* no handler call is running
Unregistered == <<"unregistered", 0>>
Idle == <<"idle", 0>>

\* the state of the bot's handlers
slack == <<bot_user_id, hpc, inbox, posted, sent>>

vars == <<text, gate, pc, lines, idx, current_table_lines, current_context_lines,
          tables, trailing_context_lines, bi, processed_tables, final_context, previous,
          slack>>

\* no handler is registered: process_all_inputs is called directly
NoHandlers ==
    /\ bot_user_id = <<"None">>
    /\ hpc = Unregistered
    /\ inbox = {}
    /\ posted = <<>>
    /\ sent = <<>>

\* the inputs: texts made of at most MaxParts parts, and framed texts
MaxParts == 3

PartProse == <<<<"h", "i">>>>
PartProseSpaced == <<<<"x", " ", "y", " ">>>>
PartBlank == <<<<>>>>
PartTable == <<<<"a", ",", "b", ",", "c">>, <<"1", ",", "2", ",", "3">>>>
PartSingle == <<<<"a", ",", "b", ",", "c", " ">>>>
PartRagged == <<<<"a", ",", "b", ",", "c">>, <<"1", ",", "2", ",", "3", ",", "4">>>>
PartFence == <<<<"BT", "BT", "BT">>>>
PartHeaderOnly == <<<<"|", "a", "|", "b", "|">>, <<"|", "-", "-", "|", "-", "-", "|">>>>

Parts == {PartProse, PartProseSpaced, PartBlank, PartTable, PartSingle, PartRagged,
          PartFence, PartHeaderOnly}
ProseParts == {PartProse, PartProseSpaced}
TableParts == {PartTable, PartSingle, PartRagged, PartHeaderOnly}

RECURSIVE Flatten(_)
Flatten(ps) == IF ps = <<>> THEN <<>> ELSE ps[1] \o Flatten(Tail(ps))

\* the text whose lines are those of the parts, in order
TextOf(ps) == JoinNL(Flatten(ps))

PartSeqs == UNION {[1..n -> Parts] : n \in 0..MaxParts}

FramedSeqs ==
    {<<p1, t1, p2, t2, p3>> : p1 \in ProseParts, t1 \in TableParts,
                               p2 \in ProseParts, t2 \in TableParts, p3 \in ProseParts}

\* short texts of single lines, bare or wrapped in a fence, for is_table_like
MaxGateLines == 3

LineCsv == <<"a", ",", "b", ",", "c">>
LineProse == <<"h", "i">>
LineAligned == <<"a", " ", " ", "b", " ", " ", "c">>
LinePipeRow == <<"|", "a", "|", "b", "|">>
LineDivider == <<"|", "-", "-", "|", "-", "-", "|">>
LineIndented == <<" ", " ", "h", "i">>
LineTwoAligned == <<"a", " ", " ", "b">>

GateLines == {LineCsv, LineProse, LineAligned, LinePipeRow, LineDivider, LineIndented,
              LineTwoAligned}

GateBodies == {JoinNL(ls) : ls \in UNION {[1..n -> GateLines] : n \in 0..MaxGateLines}}

Fenced(body) == Fence \o <<NL>> \o body \o <<NL>> \o Fence

GateTexts == GateBodies \cup {Fenced(b) : b \in GateBodies}

Texts == {TextOf(ps) : ps \in PartSeqs \cup FramedSeqs} \cup GateTexts \cup {NoneText}

\* single lines of at most MaxCells cells, each gap with a separator of its own
MaxCells == 3

LineCells == {<<>>, <<"a">>}
Separators == {<<COMMA>>, <<SEMI>>, <<TAB>>, <<PIPE>>, <<SP>>, <<SP, SP>>, <<SP, COMMA, SP>>}

\* cells[1] seps[1] cells[2] ... cells[n]
RECURSIVE Interleave(_, _, _)
Interleave(cells, seps, i) ==
    IF i > Len(cells) THEN <<>>
    ELSE (IF i = 1 THEN <<>> ELSE seps[i - 1]) \o cells[i] \o Interleave(cells, seps, i + 1)

CellLines ==
    UNION {{Interleave(cells, seps, 1) : cells \in [1..n -> LineCells],
                                         seps \in [1..(n - 1) -> Separators]} :
           n \in 1..MaxCells}

Init ==
    /\ text \in Texts
    /\ gate = "unset"
    /\ pc = "start"
    /\ lines = <<>>
    /\ idx = 1
    /\ current_table_lines = <<>>
    /\ current_context_lines = <<>>
    /\ tables = <<>>
    /\ trailing_context_lines = <<>>
    /\ bi = 1
    /\ processed_tables = <<>>
    /\ final_context = <<>>
    /\ previous = <<>>
    /\ NoHandlers

\* the handlers call is_table_like(text) before process_all_inputs
IsTableLike ==
    /\ pc = "start"
    /\ gate = "unset"
    /\ gate' = IF is_table_like(text) THEN "True" ELSE "False"
    /\ UNCHANGED <<previous, slack>>
    /\ UNCHANGED <<text, pc, lines, idx, current_table_lines, current_context_lines,
                   tables, trailing_context_lines, bi, processed_tables, final_context>>

\* lines 102-106
top_text(t) ==
    LET stripped_top == Strip(t)
    IN  IF StartsWith(stripped_top, Fence) /\ EndsWith(stripped_top, Fence)
        THEN Unfence(stripped_top)
        ELSE t

\* lines 98-113
Begin ==
    /\ pc = "start"
    /\ IF Falsy(text)
       THEN /\ pc' = "done"
            /\ UNCHANGED lines
       ELSE IF text = NoneText
       THEN \* None has no strip(): AttributeError
            /\ pc' = "raised"
            /\ UNCHANGED lines
       ELSE /\ pc' = "scan"
            /\ lines' = SplitLines(top_text(text))
    /\ UNCHANGED <<previous, slack>>
    /\ UNCHANGED <<text, gate, idx, current_table_lines, current_context_lines,
                   tables, trailing_context_lines, bi, processed_tables, final_context>>

\* raw_line.rstrip("\n")
RECURSIVE RStripNL(_)
RStripNL(s) ==
    IF s # <<>> /\ s[Len(s)] = NL THEN RStripNL(SubSeq(s, 1, Len(s) - 1)) ELSE s

\* the pair tables.append receives at lines 123 and 130
Block(table_lines, context_lines) == <<JoinNL(table_lines), JoinNL(context_lines)>>

\* a mutant of ScanLine: the line that ends a block is not kept as context
ScanLineDropsLine ==
    /\ pc = "scan"
    /\ idx <= Len(lines)
    /\ LET line == RStripNL(lines[idx])
       IN  IF looks_like_table_line(line)
           THEN /\ current_table_lines' = Append(current_table_lines, line)
                /\ UNCHANGED <<current_context_lines, tables>>
           ELSE IF current_table_lines # <<>>
           THEN /\ tables' = Append(tables, Block(current_table_lines, current_context_lines))
                /\ current_table_lines' = <<>>
                /\ current_context_lines' = <<>>
           ELSE /\ current_context_lines' = Append(current_context_lines, line)
                /\ UNCHANGED <<current_table_lines, tables>>
    /\ idx' = idx + 1
    /\ UNCHANGED <<previous, slack>>
    /\ UNCHANGED <<text, gate, pc, lines, trailing_context_lines, bi, processed_tables,
                   final_context>>

\* a mutant of ScanLine: the context is not reset when a block is flushed
ScanLineKeepsContext ==
    /\ pc = "scan"
    /\ idx <= Len(lines)
    /\ LET line == RStripNL(lines[idx])
       IN  IF looks_like_table_line(line)
           THEN /\ current_table_lines' = Append(current_table_lines, line)
                /\ UNCHANGED <<current_context_lines, tables>>
           ELSE IF current_table_lines # <<>>
           THEN /\ tables' = Append(tables, Block(current_table_lines, current_context_lines))
                /\ current_table_lines' = <<>>
                /\ current_context_lines' = Append(current_context_lines, line)
           ELSE /\ current_context_lines' = Append(current_context_lines, line)
                /\ UNCHANGED <<current_table_lines, tables>>
    /\ idx' = idx + 1
    /\ UNCHANGED <<previous, slack>>
    /\ UNCHANGED <<text, gate, pc, lines, trailing_context_lines, bi, processed_tables,
                   final_context>>

\* lines 116-126: one turn of the scan
ScanLine ==
    /\ pc = "scan"
    /\ idx <= Len(lines)
    /\ LET line == RStripNL(lines[idx])
       IN  IF looks_like_table_line(line)
           THEN /\ current_table_lines' = Append(current_table_lines, line)
                /\ UNCHANGED <<current_context_lines, tables>>
           ELSE IF current_table_lines # <<>>
           THEN /\ tables' = Append(tables, Block(current_table_lines, current_context_lines))
                /\ current_table_lines' = <<>>
                /\ current_context_lines' = <<line>>
           ELSE /\ current_context_lines' = Append(current_context_lines, line)
                /\ UNCHANGED <<current_table_lines, tables>>
    /\ idx' = idx + 1
    /\ UNCHANGED <<previous, slack>>
    /\ UNCHANGED <<text, gate, pc, lines, trailing_context_lines, bi, processed_tables,
                   final_context>>

\* a mutant of Flush: a block still open at the end is taken for trailing context
FlushAbsorbsTable ==
    /\ pc = "scan"
    /\ idx > Len(lines)
    /\ trailing_context_lines' =
           trailing_context_lines \o current_context_lines \o current_table_lines
    /\ pc' = "normalize"
    /\ UNCHANGED <<previous, slack>>
    /\ UNCHANGED <<text, gate, lines, idx, current_table_lines, current_context_lines,
                   tables, bi, processed_tables, final_context>>

\* lines 128-132: after the loop
Flush ==
    /\ pc = "scan"
    /\ idx > Len(lines)
    /\ IF current_table_lines # <<>>
       THEN /\ tables' = Append(tables, Block(current_table_lines, current_context_lines))
            /\ UNCHANGED trailing_context_lines
       ELSE /\ trailing_context_lines' = trailing_context_lines \o current_context_lines
            /\ UNCHANGED tables
    /\ pc' = "normalize"
    /\ UNCHANGED <<previous, slack>>
    /\ UNCHANGED <<text, gate, lines, idx, current_table_lines, current_context_lines,
                   bi, processed_tables, final_context>>

\* line 140
raw_lines_count(raw_table) == Len(NonBlankLines(SplitLines(raw_table)))

\* a mutant of Kept: an empty parse is kept
KeptEmptyParse(raw_table) ==
    LET r == clean_and_format_table(raw_table)
    IN  r.kind = "ok" /\ ~(raw_lines_count(raw_table) < 2)

\* line 141, negated: the parse of the block is kept as a table
Kept(raw_table) ==
    LET r == clean_and_format_table(raw_table)
    IN  r.kind = "ok" /\ ~(r.rows <= 0 \/ r.cols <= 0 \/ raw_lines_count(raw_table) < 2)

\* line 144
Entry(raw_table, context_before) ==
    LET r == clean_and_format_table(raw_table)
    IN  <<Strip(context_before), r.csv, r.rows, r.cols>>

\* a mutant of NormalizeBlock: no except clause, the exception leaves the call
NormalizeBlockNoCatch ==
    /\ pc = "normalize"
    /\ bi <= Len(tables)
    /\ LET raw_table == tables[bi][1]
           context_before == tables[bi][2]
       IN  IF clean_and_format_table(raw_table).kind = "raise"
           THEN /\ pc' = "raised"
                /\ UNCHANGED <<processed_tables, trailing_context_lines>>
           ELSE IF Kept(raw_table)
           THEN /\ processed_tables' = Append(processed_tables, Entry(raw_table, context_before))
                /\ UNCHANGED <<pc, trailing_context_lines>>
           ELSE /\ trailing_context_lines' = Append(trailing_context_lines, raw_table)
                /\ UNCHANGED <<pc, processed_tables>>
    /\ bi' = bi + 1
    /\ UNCHANGED <<previous, slack>>
    /\ UNCHANGED <<text, gate, lines, idx, current_table_lines, current_context_lines,
                   tables, final_context>>

\* a mutant of NormalizeBlock: a block that is not kept is dropped
NormalizeBlockDropsRaw ==
    /\ pc = "normalize"
    /\ bi <= Len(tables)
    /\ LET raw_table == tables[bi][1]
           context_before == tables[bi][2]
       IN  IF Kept(raw_table)
           THEN /\ processed_tables' = Append(processed_tables, Entry(raw_table, context_before))
                /\ UNCHANGED trailing_context_lines
           ELSE UNCHANGED <<processed_tables, trailing_context_lines>>
    /\ bi' = bi + 1
    /\ UNCHANGED <<previous, slack>>
    /\ UNCHANGED <<text, gate, pc, lines, idx, current_table_lines, current_context_lines,
                   tables, final_context>>

\* lines 136-153: one turn of the block loop; the except clause of line 145
\* takes the same path as the skip of line 141
NormalizeBlock ==
    /\ pc = "normalize"
    /\ bi <= Len(tables)
    /\ LET raw_table == tables[bi][1]
           context_before == tables[bi][2]
       IN  IF Kept(raw_table)
           THEN /\ processed_tables' = Append(processed_tables, Entry(raw_table, context_before))
                /\ UNCHANGED trailing_context_lines
           ELSE /\ trailing_context_lines' = Append(trailing_context_lines, raw_table)
                /\ UNCHANGED processed_tables
    /\ bi' = bi + 1
    /\ UNCHANGED <<previous, slack>>
    /\ UNCHANGED <<text, gate, pc, lines, idx, current_table_lines, current_context_lines,
                   tables, final_context>>

\* lines 155-156
Finish ==
    /\ pc = "normalize"
    /\ bi > Len(tables)
    /\ final_context' = Strip(JoinNL(trailing_context_lines))
    /\ pc' = "done"
    /\ UNCHANGED <<previous, slack>>
    /\ UNCHANGED <<text, gate, lines, idx, current_table_lines, current_context_lines,
                   tables, trailing_context_lines, bi, processed_tables>>

\* the caller hands the canonical text of a call that returned one table to a
\* second call
Rerun ==
    /\ pc = "done"
    /\ previous = <<>>
    /\ Len(processed_tables) = 1
    /\ text' = processed_tables[1][2]
    /\ previous' = <<processed_tables[1][3], processed_tables[1][4]>>
    /\ gate' = "unset"
    /\ pc' = "start"
    /\ lines' = <<>>
    /\ idx' = 1
    /\ current_table_lines' = <<>>
    /\ current_context_lines' = <<>>
    /\ tables' = <<>>
    /\ trailing_context_lines' = <<>>
    /\ bi' = 1
    /\ processed_tables' = <<>>
    /\ final_context' = <<>>
    /\ UNCHANGED slack

Next == IsTableLike \/ Begin \/ ScanLine \/ Flush \/ NormalizeBlock \/ Finish \/ Rerun

Spec == Init /\ [][Next]_vars

\* tables: a first row and at most MaxDataRows rows more, of the first two or
\* all three cells of each, in four styles, between a line of context and a tail
MaxDataRows == 2

RowHeader == <<<<"a">>, <<"b">>, <<"c">>>>
RowDuplicate == <<<<"a">>, <<"a">>, <<"b">>>>
RowBlank == <<<<"a">>, <<>>, <<"c">>>>
RowIndexed == <<<<"i", "d">>, <<"b">>, <<"c">>>>
RowCollision == <<<<"a">>, <<"I", "n", "d", "e", "x">>, <<"c">>>>
RowNumbers == <<<<"1">>, <<"2">>, <<"3">>>>
RowNumbers2 == <<<<"2">>, <<"5">>, <<"6">>>>
RowWords == <<<<"x">>, <<"y">>, <<"z">>>>
RowMixed == <<<<"0", "7">>, <<>>, <<"x">>>>

FirstRows == {RowHeader, RowDuplicate, RowBlank, RowIndexed, RowCollision,
              RowNumbers, RowWords, RowMixed}
DataRows == {RowNumbers, RowNumbers2, RowWords, RowMixed}

TableStyles == {"comma", "semi", "pipe", "md"}

StyleDelimiter(style) ==
    IF style = "comma" THEN <<COMMA>> ELSE IF style = "semi" THEN <<SEMI>> ELSE <<PIPE>>

RowLine(row, style, c) ==
    LET body == Join(SubSeq(row, 1, c), StyleDelimiter(style))
    IN  IF style = "md" THEN <<PIPE>> \o body \o <<PIPE>> ELSE body

DividerLine(c) == Join([i \in 1..(c + 1) |-> <<>>], <<PIPE, DASH, DASH>>) \o <<PIPE>>

TableRows(first, rest, style, c) ==
    <<RowLine(first, style, c)>>
    \o (IF style = "md" THEN <<DividerLine(c)>> ELSE <<>>)
    \o [i \in 1..Len(rest) |-> RowLine(rest[i], style, c)]

LineBefore == <<"h", "i">>
LineAfter == <<"b", "y", "e">>

TableTexts ==
    {JoinNL(<<LineBefore>> \o TableRows(first, rest, style, c) \o <<LineAfter>>) :
        first \in FirstRows,
        rest \in UNION {[1..n -> DataRows] : n \in 1..MaxDataRows},
        style \in TableStyles,
        c \in 2..3}

\* the same calls on texts built of cells
CellTexts == CellLines \cup TableTexts

InitCells ==
    /\ text \in CellTexts
    /\ gate = "unset"
    /\ pc = "start"
    /\ lines = <<>>
    /\ idx = 1
    /\ current_table_lines = <<>>
    /\ current_context_lines = <<>>
    /\ tables = <<>>
    /\ trailing_context_lines = <<>>
    /\ bi = 1
    /\ processed_tables = <<>>
    /\ final_context = <<>>
    /\ previous = <<>>
    /\ NoHandlers

SpecCells == InitCells /\ [][Next]_vars


(***************************************************************************)
(* Properties                                                              *)
(***************************************************************************)
\* the scan is over and no block has been normalized yet
ScanDone == pc = "normalize" /\ bi = 1

\* str.split("\n"), the inverse of "\n".join on a list that is not empty
SplitNL(s) == Split(s, NL)

\* the line lists a joined context can stand for: "" is the join of [] and of [""]
ContextRuns(ctx) == IF ctx = <<>> THEN {<<>>, <<<<>>>>} ELSE {SplitNL(ctx)}

\* the line sequences the blocks and their contexts, taken in order, can stand for
RECURSIVE Reconstructions(_)
Reconstructions(tbls) ==
    IF tbls = <<>> THEN {<<>>}
    ELSE {c \o SplitNL(tbls[1][1]) \o rest :
             c \in ContextRuns(tbls[1][2]), rest \in Reconstructions(Tail(tbls))}

\* C1: after the line scan the context runs and the blocks, in the order the
\* scan made them and followed by the trailing context, are exactly the input
\* lines in input order: every line is in one run or one block, none twice.
C1_Partition ==
    ScanDone => \E r \in Reconstructions(tables) : r \o trailing_context_lines = lines

C1_Witness ==
    /\ ScanDone
    /\ Len(tables) >= 2
    /\ tables[2][2] # <<>>
    /\ trailing_context_lines # <<>>

TableLikeAt(i) == looks_like_table_line(lines[i])

\* the first index of the run of lines up to n that are all table-like (isTable)
\* or all not table-like; n + 1 when line n is of the other kind
RunStart(n, isTable) ==
    CHOOSE k \in 1..(n + 1) :
        /\ \A i \in k..n : TableLikeAt(i) = isTable
        /\ k = 1 \/ TableLikeAt(k - 1) # isTable

\* the stripped lines the call returned: of the blocks kept as tables, of the
\* contexts returned with them, and of the trailing context
ReturnedLines ==
    LET keptRaw == {tables[i][1] : i \in {j \in 1..Len(tables) : Kept(tables[j][1])}}
        ctxs == {processed_tables[i][1] : i \in 1..Len(processed_tables)}
        strs == keptRaw \cup ctxs \cup {final_context}
    IN  UNION {{Strip(SplitLines(t)[i]) : i \in 1..Len(SplitLines(t))} : t \in strs}

\* C2: no non-blank input line is lost: each is a line of a block returned as
\* a table, of a returned context, or of the returned trailing context.
C2_NoLineLost ==
    (pc = "done" /\ ~Falsy(text)) =>
        \A i \in 1..Len(lines) : Strip(lines[i]) # <<>> => Strip(lines[i]) \in ReturnedLines

\* C3: when the input ends in a run of table-like lines, the scan makes that
\* run the last block, paired with the context run just before it, and the
\* trailing context stays empty; otherwise the trailing context is the last
\* run of lines that are not table-like.
C3_FinalFlush ==
    ScanDone =>
        LET n == Len(lines)
        IN  IF n > 0 /\ TableLikeAt(n)
            THEN LET k == RunStart(n, TRUE)
                     c == RunStart(k - 1, FALSE)
                 IN  /\ tables # <<>>
                     /\ tables[Len(tables)] =
                            <<JoinNL(SubSeq(lines, k, n)), JoinNL(SubSeq(lines, c, k - 1))>>
                     /\ trailing_context_lines = <<>>
            ELSE trailing_context_lines = SubSeq(lines, RunStart(n, FALSE), n)

C3_Witness ==
    /\ ScanDone
    /\ Len(lines) >= 3
    /\ TableLikeAt(Len(lines))
    /\ tables[Len(tables)][2] # <<>>

\* lines = prose1, table1, prose2, table2, prose3 with the table runs ending at
\* b and d and the prose runs at a, c and the last line
Framed(a, b, c, d) ==
    /\ 0 < a /\ a < b /\ b < c /\ c < d /\ d < Len(lines)
    /\ \A i \in 1..Len(lines) : TableLikeAt(i) = (i \in (a + 1)..b \cup (c + 1)..d)

\* C4: for prose1, table1, prose2, table2, prose3 with both tables kept, the
\* call returns two tables in input order, the first with the stripped prose1
\* as context, the second with the stripped prose2, and the stripped prose3
\* as trailing context.
C4_FramedSlots ==
    pc = "done" =>
        \A a, b, c, d \in 1..Len(lines) :
            (/\ Framed(a, b, c, d)
             /\ Kept(JoinNL(SubSeq(lines, a + 1, b)))
             /\ Kept(JoinNL(SubSeq(lines, c + 1, d))))
            => /\ Len(processed_tables) = 2
               /\ processed_tables[1][1] = Strip(JoinNL(SubSeq(lines, 1, a)))
               /\ processed_tables[1][2] = clean_and_format_table(JoinNL(SubSeq(lines, a + 1, b))).csv
               /\ processed_tables[2][1] = Strip(JoinNL(SubSeq(lines, b + 1, c)))
               /\ processed_tables[2][2] = clean_and_format_table(JoinNL(SubSeq(lines, c + 1, d))).csv
               /\ final_context = Strip(JoinNL(SubSeq(lines, d + 1, Len(lines))))

C4_Witness ==
    /\ pc = "done"
    /\ Len(processed_tables) = 2
    /\ Len(lines) = 7
    /\ Framed(1, 3, 4, 6)
    /\ processed_tables[1][1] # processed_tables[2][1]
    /\ final_context # <<>>

\* the entries of the blocks that are kept, each normalized on its own
RECURSIVE ExpectedTables(_)
ExpectedTables(tbls) ==
    IF tbls = <<>> THEN <<>>
    ELSE (IF Kept(tbls[1][1]) THEN <<Entry(tbls[1][1], tbls[1][2])>> ELSE <<>>)
         \o ExpectedTables(Tail(tbls))

BlockRaises(i) == clean_and_format_table(tables[i][1]).kind = "raise"

\* C5: the call never raises, and a block whose normalization raises changes
\* nothing for the others: the returned tables are those of the kept blocks,
\* in order, each with the context, text and counts of its own normalization.
C5_BlocksIsolated ==
    /\ pc # "raised"
    /\ (pc = "done" /\ ~Falsy(text)) => processed_tables = ExpectedTables(tables)

C5_Witness ==
    /\ pc = "done"
    /\ \E i, j \in 1..Len(tables) : i < j /\ BlockRaises(i) /\ Kept(tables[j][1])
    /\ processed_tables # <<>>

\* a occurs in b as a run of consecutive characters
IsSubstring(a, b) == \E k \in 0..(Len(b) - Len(a)) : SubSeq(b, k + 1, k + Len(a)) = a

KeptCount == Cardinality({i \in 1..Len(tables) : Kept(tables[i][1])})

RECURSIVE IsSubsequence(_, _)
IsSubsequence(a, b) ==
    IF a = <<>> THEN TRUE
    ELSE IF b = <<>> THEN FALSE
    ELSE IF a[1] = b[1] THEN IsSubsequence(Tail(a), Tail(b))
    ELSE IsSubsequence(a, Tail(b))

\* C7: the returned trailing context keeps the input order: its non-blank
\* lines are input lines in the order of the input.
C7_ContextOrder ==
    pc = "done" =>
        IsSubsequence(StripAll(NonBlankLines(SplitLines(final_context))),
                      StripAll(NonBlankLines(lines)))

\* the empty string, or None
EmptyOrMissing(t) == t \in {<<>>, NoneText}

\* C8: for None and for the empty string, is_table_like returns False and
\* process_all_inputs returns no table and an empty trailing context; neither
\* raises.
C8_EmptyInput ==
    EmptyOrMissing(text) =>
        /\ gate # "True"
        /\ pc # "raised"
        /\ pc \in {"start", "done"}
        /\ pc = "done" => processed_tables = <<>> /\ final_context = <<>>

C8_Witness == text = NoneText /\ gate = "False" /\ pc = "done"

IsFenced(t) == StartsWith(Strip(t), Fence) /\ EndsWith(Strip(t), Fence)

\* the non-blank lines inside the fence of a fenced text
FencedLines(t) == NonBlankLines(SplitLines(Strip(Unfence(Strip(t)))))

FirstLines(ls, n) == SubSeq(ls, 1, IF Len(ls) < n THEN Len(ls) ELSE n)

\* a Markdown pipe table: a first line with a pipe, then a header divider
IsMarkdownTable(ls) == Len(ls) >= 2 /\ Contains(ls[1], PIPE) /\ MdDivider(ls[2])

ClaimedDelimiterSignal(sample) ==
    \E k \in 1..Len(delimiters) :
        LET q == {i \in 1..Len(sample) : Count(sample[i], delimiters[k]) >= 2}
        IN  /\ Cardinality(q) >= 3
            /\ \A i, j \in q :
                   Count(sample[i], delimiters[k]) <= 2 * Count(sample[j], delimiters[k])

GateLinesOf(t) == NonBlankLines(SplitLines(GateText(t)))

\* C10: is_table_like returns True only by the claimed delimiter signal, the
\* multi-space signal or the Markdown signal; prose with one line of two
\* commas and none of the other signals is not table-like.
C10_DelimiterConsistency ==
    (gate = "True" /\ ~Falsy(text)) =>
        \/ ClaimedDelimiterSignal(FirstLines(GateLinesOf(text), SampleSize))
        \/ MultiSpaceSignal(FirstLines(GateLinesOf(text), SampleSize))
        \/ MarkdownSignal(GateLinesOf(text))


\* the multi-space signal as claimed: two sampled lines or more that have an
\* inner run of two spaces or more and split on such runs into three non-empty
\* parts or more
ClaimedMultiSpaceSignal(sample) ==
    Cardinality({i \in 1..Len(sample) :
                    /\ HasIntraMultiSpace(sample[i])
                    /\ Len(NonEmptyParts(StripAll(MultiSpaceSplit(sample[i])))) >= 3}) >= 2

\* C11: is_table_like returns True only by the delimiter signal, the
\* multi-space signal as claimed, or the Markdown signal; one line with an
\* inner multi-space run, or lines that split into two parts only, do not
\* make a text table-like.
C11_MultiSpaceSignal ==
    (gate = "True" /\ ~Falsy(text)) =>
        \/ DelimiterSignal(FirstLines(GateLinesOf(text), SampleSize))
        \/ ClaimedMultiSpaceSignal(FirstLines(GateLinesOf(text), SampleSize))
        \/ MarkdownSignal(GateLinesOf(text))


\* the lines of the blocks, in order
RECURSIVE TableLines(_)
TableLines(tbls) ==
    IF tbls = <<>> THEN <<>> ELSE SplitNL(tbls[1][1]) \o TableLines(Tail(tbls))

\* s less one pipe at its start and one at its end
DropOuterPipes(s) ==
    LET a == IF s # <<>> /\ s[1] = PIPE THEN Tail(s) ELSE s
    IN  IF a # <<>> /\ a[Len(a)] = PIPE THEN SubSeq(a, 1, Len(a) - 1) ELSE a

\* the non-empty cells of s split at every d
CellsAt(s, d) == NonEmptyParts(StripAll(Split(s, d)))

\* the per-line predicate as claimed; a multi-space run is a run of
\* whitespace, as in the pattern \s{2,}
ClaimedTableLine(line) ==
    LET s == Strip(line)
    IN  IF s = <<>> THEN FALSE
        ELSE IF Contains(s, PIPE) THEN Len(CellsAt(DropOuterPipes(s), PIPE)) >= 2
        ELSE \/ \E d \in {COMMA, TAB, SEMI} : Count(s, d) >= 2 /\ Len(CellsAt(s, d)) >= 3
             \/ /\ HasIntraMultiSpace(s)
                /\ Len(NonEmptyParts(StripAll(MultiSpaceSplit(s)))) >= 3

PlainLine(l) ==
    /\ Strip(l) # <<>>
    /\ \A k \in 1..Len(delimiters) : ~Contains(l, delimiters[k])
    /\ ~HasMultiSpace(l)

\* a line of two non-empty cells around the one occurrence of d, no other
\* delimiter in it
TwoCellLine(l, d) ==
    /\ Count(l, d) = 1
    /\ \A k \in 1..Len(delimiters) : delimiters[k] # d => ~Contains(l, delimiters[k])
    /\ Len(CellsAt(l, d)) = 2

\* lines = context lines, then lines a + 1 .. b of two cells each, then a tail
TwoCellBlockAt(a, b, d) ==
    /\ 0 < a /\ a + 2 <= b /\ b < Len(lines)
    /\ \A i \in 1..Len(lines) :
           IF i \in (a + 1)..b THEN TwoCellLine(lines[i], d) ELSE PlainLine(lines[i])

\* C13: context lines, then two lines or more of two cells around a single
\* delimiter, then a tail: the call returns exactly one table, with a
\* canonical text that is not empty.
C13_TwoCellBlock ==
    (pc = "done" /\ previous = <<>>) =>
        \A a, b \in 1..Len(lines) : \A k \in 1..Len(delimiters) :
            TwoCellBlockAt(a, b, delimiters[k]) =>
                Len(processed_tables) = 1 /\ processed_tables[1][2] # <<>>


AllLetters(cell) == cell # <<>> /\ \A i \in 1..Len(cell) : IsLetter(cell[i])
AllDigits(cell) == cell # <<>> /\ \A i \in 1..Len(cell) : IsDigit(cell[i])

\* a block of C comma-separated columns: a first row of words, the first of
\* them no index name, and rows of numbers beneath it
CommaTableWithHeader(raw_table) ==
    LET rs == [i \in 1..Len(SplitNL(raw_table)) |-> Split(SplitNL(raw_table)[i], COMMA)]
    IN  /\ Len(rs) >= 2
        /\ \A i \in 1..Len(rs) : Len(rs[i]) = Len(rs[1])
        /\ \A j \in 1..Len(rs[1]) : AllLetters(rs[1][j])
        /\ Lower(rs[1][1]) \notin ROW_COLUMN_NAMES
        /\ \A i \in 2..Len(rs) : \A j \in 1..Len(rs[i]) : AllDigits(rs[i][j])

\* C14: of every table returned, row_count is the number of lines of the
\* canonical text beneath its header line, and col_count the number of its
\* columns, the index column among them; and a comma-delimited block of a
\* header row of words, N rows of numbers and C columns, with no recognized
\* index column, is returned with row_count N and col_count C + 1.
C14_Counts ==
    pc = "done" =>
        /\ \A i \in 1..Len(processed_tables) :
               /\ processed_tables[i][3] = Len(SplitNL(processed_tables[i][2])) - 1
               /\ processed_tables[i][4] = Len(Split(SplitNL(processed_tables[i][2])[1], COMMA))
        /\ \A i \in 1..Len(tables) :
               CommaTableWithHeader(tables[i][1]) =>
                   /\ Kept(tables[i][1])
                   /\ clean_and_format_table(tables[i][1]).rows = Len(SplitNL(tables[i][1])) - 1
                   /\ clean_and_format_table(tables[i][1]).cols =
                          Len(Split(SplitNL(tables[i][1])[1], COMMA)) + 1

\* the first half of C14 alone
CountsOfCanonicalText ==
    pc = "done" =>
        \A i \in 1..Len(processed_tables) :
            /\ processed_tables[i][3] = Len(SplitNL(processed_tables[i][2])) - 1
            /\ processed_tables[i][4] = Len(Split(SplitNL(processed_tables[i][2])[1], COMMA))


\* the cells of a pipe row, outer pipes dropped
MdCells(line) == StripAll(Split(DropOuterPipes(Strip(line)), PIPE))

MdCell(line, j) == IF j <= Len(MdCells(line)) THEN MdCells(line)[j] ELSE <<>>

\* a Markdown table: a first row, the divider, then rows of data
IsMdTableBlock(ls) ==
    /\ Len(ls) >= 3
    /\ ~MdDivider(ls[1])
    /\ MdDivider(ls[2])
    /\ \A i \in 3..Len(ls) : ~MdDivider(ls[i])

\* the names the first row gives to the columns that hold a value beneath the
\* divider; an empty cell reads as the missing value, written nan
MdNames(ls) ==
    LET keep == {j \in 1..Len(MdCells(ls[1])) : \E i \in 3..Len(ls) : MdCell(ls[i], j) # <<>>}
        cols == SelectSeq([j \in 1..Len(MdCells(ls[1])) |-> j], LAMBDA j : j \in keep)
    IN  [k \in 1..Len(cols) |->
            IF MdCell(ls[1], cols[k]) = <<>> THEN <<"n", "a", "n">> ELSE MdCell(ls[1], cols[k])]

\* the header line of the canonical text for these names
HeaderLineFor(names) ==
    IF names # <<>> /\ Lower(names[1]) \in ROW_COLUMN_NAMES
    THEN Join(names, <<COMMA>>)
    ELSE Join(<<IndexName>> \o names, <<COMMA>>)

\* what C15 says of the block raw_table when its normalization returns
MdHeaderForced(raw_table) ==
    LET ls == SplitNL(raw_table)
        csv_lines == SplitNL(clean_and_format_table(raw_table).csv)
    IN  (IsMdTableBlock(ls) /\ clean_and_format_table(raw_table).kind = "ok") =>
            /\ clean_and_format_table(raw_table).rows = Len(ls) - 2
            /\ Len(csv_lines) = Len(ls) - 1
            /\ csv_lines[1] = HeaderLineFor(MdNames(ls))
            /\ \A i \in 1..Len(csv_lines) : ~MdDivider(csv_lines[i])

BlockDelimiters == {COMMA, SEMI, PIPE}

\* a block of two rows or more with no divider line, written with d alone
PlainBlock(ls, d) ==
    /\ Len(ls) >= 2
    /\ \A i \in 1..Len(ls) :
           /\ ~MdDivider(ls[i])
           /\ Contains(ls[i], d)
           /\ \A e \in BlockDelimiters \ {d} : ~Contains(ls[i], e)
           /\ ~HasMultiSpace(ls[i])

\* the cells of a row, blank ones among them
RowCells(line, d) == StripAll(Split(DropOuterPipes(Strip(line)), d))

NonBlank(cells) == {j \in 1..Len(cells) : cells[j] # <<>>}

\* the header rule as claimed, over the non-blank cells of the first two rows
ClaimedHeader(row0, row1) ==
    /\ 10 * Cardinality({j \in NonBlank(row0) : ~is_numeric_token(row0[j])})
           >= 6 * Cardinality(NonBlank(row0))
    /\ 2 * Cardinality({j \in NonBlank(row1) : is_numeric_token(row1[j])})
           >= Cardinality(NonBlank(row1))

\* Index,Column_1,...,Column_n
PlaceholderLine(n) == Join(<<IndexName>> \o [j \in 1..n |-> ColumnName(j)], <<COMMA>>)

\* what C16 says of the block raw_table, written with d, when its
\* normalization returns
HeaderByFirstTwoRows(raw_table, d) ==
    LET ls == SplitNL(raw_table)
        r == clean_and_format_table(raw_table)
    IN  (PlainBlock(ls, d) /\ r.kind = "ok") =>
            IF ClaimedHeader(RowCells(ls[1], d), RowCells(ls[2], d))
            THEN r.rows = Len(ls) - 1
            ELSE /\ r.rows = Len(ls)
                 /\ SplitNL(r.csv)[1] = PlaceholderLine(r.cols - 1)

\* C16: of a block with no divider line and two rows or more, the first row
\* is the header exactly when 60% or more of its non-blank cells are no
\* numeric tokens and 50% or more of the non-blank cells of the second row are
\* numeric tokens; else the columns are named Column_1..Column_n and the first
\* row stays a row of data.
C16_HeaderRule ==
    pc = "done" =>
        \A i \in 1..Len(tables) : \A d \in BlockDelimiters :
            HeaderByFirstTwoRows(tables[i][1], d)


\* the column names of a canonical text
ColumnNames(csv) == Split(SplitNL(csv)[1], COMMA)

Distinct(seq) == \A i, j \in 1..Len(seq) : i # j => seq[i] # seq[j]

\* C17: the column names of every table returned are pairwise distinct: a
\* header cell that is blank, or that repeats an earlier one or the name of
\* the index column, got a positional placeholder instead.
C17_DistinctNames ==
    pc = "done" =>
        \A i \in 1..Len(processed_tables) : Distinct(ColumnNames(processed_tables[i][2]))


\* the rows of a block: its lines that are no divider
BlockRows(ls) == SelectSeq(ls, LAMBDA ln : ~MdDivider(ln))

\* every row of the block is written with d alone
WrittenWith(ls, d) ==
    \A i \in 1..Len(BlockRows(ls)) :
        /\ Contains(BlockRows(ls)[i], d)
        /\ \A e \in BlockDelimiters \ {d} : ~Contains(BlockRows(ls)[i], e)
        /\ ~HasMultiSpace(BlockRows(ls)[i])

\* column 0 of a canonical text of n rows
FirstColumn(csv, n) == [i \in 1..n |-> Split(SplitNL(csv)[i + 1], COMMA)[1]]

\* what C18 says of the block raw_table, written with d: when the first row
\* became the header and its first cell is an index name, the input supplied
\* the index column
IndexColumnRule(raw_table, d) ==
    LET rs == BlockRows(SplitNL(raw_table))
        r == clean_and_format_table(raw_table)
        supplied == /\ r.rows = Len(rs) - 1
                    /\ Lower(RowCells(rs[1], d)[1]) \in ROW_COLUMN_NAMES
    IN  (WrittenWith(SplitNL(raw_table), d) /\ r.kind = "ok" /\ r.rows > 0) =>
            IF supplied
            THEN FirstColumn(r.csv, r.rows) = [i \in 1..r.rows |-> RowCells(rs[i + 1], d)[1]]
            ELSE FirstColumn(r.csv, r.rows) = [i \in 1..r.rows |-> IntToStr(i)]

\* C18: column 0 of every table the normalizer returns holds 1..row_count in
\* order, unless the input supplied a recognized index column: then its cells
\* are in the output as they were.
C18_IndexColumn ==
    pc = "done" =>
        \A i \in 1..Len(tables) : \A d \in BlockDelimiters :
            IndexColumnRule(tables[i][1], d)

\* what C19 says of the block raw_table, written with d: a first column that
\* counts 1..N over the N rows of the parsed table is the index column, so
\* the canonical text starts with no inserted Index column
SequenceRule(raw_table, d) ==
    LET rs == BlockRows(SplitNL(raw_table))
        r == clean_and_format_table(raw_table)
        taken == r.rows = Len(rs) - 1
        body == IF taken THEN Tail(rs) ELSE rs
        inserted == /\ ColumnNames(r.csv)[1] = IndexName
                    /\ ~taken \/ Strip(RowCells(rs[1], d)[1]) # IndexName
    IN  (/\ WrittenWith(SplitNL(raw_table), d)
         /\ r.kind = "ok"
         /\ r.rows > 0
         /\ r.rows = Len(body)
         /\ \A i \in 1..Len(body) : Strip(RowCells(body[i], d)[1]) = IntToStr(i))
            => ~inserted

\* C19: when the first column of a parsed table holds exactly 1..N over its
\* N rows, the normalizer takes it as the index column whatever its name and
\* inserts no Index column (stated of the blocks returned as tables).
C19_SequenceIsIndex ==
    pc = "done" =>
        \A i \in 1..Len(tables) : \A d \in BlockDelimiters :
            Kept(tables[i][1]) => SequenceRule(tables[i][1], d)


\* C20: canonicalization is idempotent on counts: when the canonical text of a
\* single-table result is given to process_all_inputs again, the call returns
\* exactly one table with the same row_count and the same col_count.
C20_IdempotentCounts ==
    (pc = "done" /\ previous # <<>>) =>
        /\ Len(processed_tables) = 1
        /\ <<processed_tables[1][3], processed_tables[1][4]>> = previous


\* the order in which C21 breaks equal counts
ClaimedPreference == <<TAB, PIPE, SEMI, COMMA>>

\* the first few non-empty lines of a block's text, stripped
FewLines(t) == FirstLines(StripAll(NonBlankLines(SplitLines(t))), SampleSize)

RECURSIVE TotalCount(_, _)
TotalCount(ls, d) ==
    IF ls = <<>> THEN 0 ELSE Count(Head(ls), d) + TotalCount(Tail(ls), d)

\* the delimiter C21 describes: the largest count over the first few lines,
\* equal counts broken by ClaimedPreference, comma when nothing occurs
ClaimedDelimiter(t) ==
    LET ls == FewLines(t)
        k == CHOOSE k \in 1..Len(ClaimedPreference) :
                 /\ \A j \in 1..Len(ClaimedPreference) :
                        TotalCount(ls, ClaimedPreference[k]) >= TotalCount(ls, ClaimedPreference[j])
                 /\ \A j \in 1..(k - 1) :
                        TotalCount(ls, ClaimedPreference[j]) < TotalCount(ls, ClaimedPreference[k])
    IN  IF TotalCount(ls, ClaimedPreference[k]) >= 1 THEN ClaimedPreference[k] ELSE COMMA

\* no line the inference looks at has a run of two spaces or more
NoMultiSpaceRun(t) == \A i \in 1..Len(FewLines(t)) : ~HasMultiSpace(FewLines(t)[i])

\* C21: when the multi-space rule does not apply, delimiter inference returns
\* the candidate of the largest count over the first few non-empty lines of
\* the block, equal counts broken in the order tab, pipe, semicolon, comma,
\* and comma when no candidate occurs.
C21_DelimiterChoice ==
    pc = "done" =>
        \A i \in 1..Len(tables) :
            NoMultiSpaceRun(table_text(tables[i][1])) =>
                detect_delimiter(table_text(tables[i][1])) = ClaimedDelimiter(table_text(tables[i][1]))


\* the frame line 289 tests for an index column, for a block whose
\* normalization returns a table
HeadedFrame(raw_table) ==
    LET tt == table_text(raw_table)
        df == dropna_columns(Frame(read_csv(RawRows(tt, detect_delimiter(tt)))))
    IN  dropna_columns(WithHeader(raw_table, df))

\* the frame the coercion loop of lines 298-318 starts from, for a block
\* whose normalization returns a table
FrameToCoerce(raw_table) == WithIndex(HeadedFrame(raw_table))

\* a cell as trimmed text: a missing cell is blank
TrimmedText(v) == IF v = NaN THEN <<>> ELSE Strip(v)

ParsesAsNumber(t) == t # <<>> /\ ParsesNumeric(RemoveCommas(t))

\* the column decision as claimed: 60% or more of the non-blank cells parse
ClaimedNumericColumn(col) ==
    LET non_blank == {i \in 1..Len(col) : col[i] # <<>>}
        parsed == {i \in 1..Len(col) : ParsesAsNumber(col[i])}
    IN  non_blank # {} /\ 10 * Cardinality(parsed) >= 6 * Cardinality(non_blank)

\* what C22 says of a column of trimmed cells col and the texts out written
\* for it: all numeric readings (a cell with no reading left empty), or all
\* the trimmed texts
ColumnRule(col, out) ==
    IF ClaimedNumericColumn(col)
    THEN \A i \in 1..Len(col) :
             IF ParsesAsNumber(col[i])
             THEN out[i] \in {NumberText(RemoveCommas(col[i]), TRUE),
                              NumberText(RemoveCommas(col[i]), FALSE)}
             ELSE out[i] = <<>>
    ELSE \A i \in 1..Len(col) : out[i] = col[i]

CoercionRule(raw_table) ==
    LET r == clean_and_format_table(raw_table)
        df == FrameToCoerce(raw_table)
        out == Coerced(df)
    IN  (r.kind = "ok" /\ r.rows > 0) =>
            \A j \in 1..Len(df.names) :
                ColumnRule([i \in 1..Len(df.rows) |-> TrimmedText(df.rows[i][j])],
                           [i \in 1..Len(df.rows) |-> out.rows[i][j]])

\* C22: numeric coercion is decided per column: a column is written as
\* numbers iff 60% or more of its non-blank cells parse as numbers once the
\* thousands commas are removed, else every cell is written as its trimmed
\* text; no column mixes the two.
C22_ColumnCoercion ==
    pc = "done" =>
        \A i \in 1..Len(tables) : Kept(tables[i][1]) => CoercionRule(tables[i][1])


\* the name the tests expect of the synthesized column
RowName == <<"R", "o", "w">>

\* C23: when process_all_inputs synthesizes a row-identity column for a
\* detected table whose first column is not a recognized index column, that
\* column is the first column of the canonical text and is named Row.
C23_RowColumn ==
    pc = "done" =>
        \A i \in 1..Len(tables) :
            (Kept(tables[i][1]) /\ ~has_row_index_column(HeadedFrame(tables[i][1]))) =>
                ColumnNames(clean_and_format_table(tables[i][1]).csv)[1] = RowName

\* C24: the gate never rejects a text that holds a detectable table: when
\* process_all_inputs returns a table for a text, is_table_like is true of it.
C24_GateAdmitsTables ==
    (pc = "done" /\ gate # "unset" /\ Len(processed_tables) >= 1) => gate = "True"


\* the rows a block has: its non-blank lines that are no divider
RowCount(raw_table) == Len(BlockRows(NonBlankLines(SplitLines(raw_table))))

\* a block that can give a table entry: two non-blank raw lines or more, and
\* a row after the header row
Eligible(raw_table) ==
    /\ Len(NonBlankLines(SplitLines(raw_table))) >= 2
    /\ RowCount(raw_table) >= 2

\* C25: every table entry process_all_inputs returns has row_count >= 1,
\* col_count >= 1 and a non-empty canonical text, and comes from a block of
\* two non-blank raw lines or more; a block of one line, or of a header row
\* and no data row, gives no entry.
C25_EntriesNonEmpty ==
    pc = "done" =>
        /\ \A i \in 1..Len(processed_tables) :
               /\ processed_tables[i][3] >= 1
               /\ processed_tables[i][4] >= 1
               /\ processed_tables[i][2] # <<>>
               /\ \E j \in 1..Len(tables) :
                      /\ Eligible(tables[j][1])
                      /\ processed_tables[i][1] = Strip(tables[j][2])
                      /\ processed_tables[i][2] = clean_and_format_table(tables[j][1]).csv
        /\ Len(processed_tables) <= Cardinality({j \in 1..Len(tables) : Eligible(tables[j][1])})

\* a call that returned a table and also met a block of one row
C25_Witness ==
    /\ pc = "done"
    /\ Len(processed_tables) >= 1
    /\ \E j \in 1..Len(tables) : ~Eligible(tables[j][1])


(***************************************************************************)
(* bot/handlers.py: register_handlers and the handlers of the message and  *)
(* app_mention events.  The events are those of messages users post in a   *)
(* channel: no subtype, no bot_id, no files, far fewer than max_chars      *)
(* characters, a channel that is no DM.  Slack sends a message event for   *)
(* every message and an app_mention event too when the text mentions the   *)
(* bot.  A handler call has only locals and the formatter keeps no state,  *)
(* so the calls are taken one after the other, in any order.               *)
(***************************************************************************)
MaxMessages == 2

\* the user id of the bot, and its mention in a text
BotUserId == <<"U", "1">>
Mention == <<"<", "@">> \o BotUserId \o <<">">>

BodyTable == <<"a", ",", "b", ",", "c", NL, "1", ",", "2", ",", "3">>
BodyProse == <<"h", "i">>
BodyHelp == <<"h", "e", "l", "p">>

\* the texts users post: a body, alone, after a mention or before one, and a
\* mention alone
SlackTexts ==
    {BodyTable, BodyProse, BodyHelp, Mention}
    \cup {Mention \o <<SP>> \o b : b \in {BodyTable, BodyProse, BodyHelp}}
    \cup {b \o <<SP>> \o Mention : b \in {BodyTable, BodyProse}}

MentionsBot(t) == IsSubstring(Mention, t)

InitSlack ==
    /\ text = <<>>
    /\ gate = "unset"
    /\ pc = "idle"
    /\ lines = <<>>
    /\ idx = 1
    /\ current_table_lines = <<>>
    /\ current_context_lines = <<>>
    /\ tables = <<>>
    /\ trailing_context_lines = <<>>
    /\ bi = 1
    /\ processed_tables = <<>>
    /\ final_context = <<>>
    /\ previous = <<>>
    /\ NoHandlers

\* lines 29-36: auth_test answers and the user id is cached, or it raises and
\* bot_user_id stays None
RegisterHandlers ==
    /\ hpc = Unregistered
    /\ bot_user_id' \in {BotUserId, NoneText}
    /\ hpc' = Idle
    /\ UNCHANGED <<inbox, posted, sent>>
    /\ UNCHANGED <<text, gate, pc, lines, idx, current_table_lines, current_context_lines,
                   tables, trailing_context_lines, bi, processed_tables, final_context,
                   previous>>

\* a user posts a message; Slack sends its events to the subscriptions of
\* lines 147 and 189
PostMessage ==
    /\ hpc # Unregistered
    /\ Len(posted) < MaxMessages
    /\ \E t \in SlackTexts :
           /\ posted' = Append(posted, t)
           /\ inbox' = inbox \cup {<<"message", Len(posted) + 1>>}
                             \cup (IF MentionsBot(t)
                                   THEN {<<"app_mention", Len(posted) + 1>>}
                                   ELSE {})
    /\ UNCHANGED <<bot_user_id, hpc, sent>>
    /\ UNCHANGED <<text, gate, pc, lines, idx, current_table_lines, current_context_lines,
                   tables, trailing_context_lines, bi, processed_tables, final_context,
                   previous>>

\* the locals of a new call of process_all_inputs(t), made past the gate
StartCall(t) ==
    /\ text' = t
    /\ gate' = "True"
    /\ pc' = "start"
    /\ lines' = <<>>
    /\ idx' = 1
    /\ current_table_lines' = <<>>
    /\ current_context_lines' = <<>>
    /\ tables' = <<>>
    /\ trailing_context_lines' = <<>>
    /\ bi' = 1
    /\ processed_tables' = <<>>
    /\ final_context' = <<>>
    /\ UNCHANGED previous

NoCall ==
    UNCHANGED <<text, gate, pc, lines, idx, current_table_lines, current_context_lines,
                tables, trailing_context_lines, bi, processed_tables, final_context,
                previous>>

\* line 213: the text holds the mention of the cached user id
SkipsMention(t) == bot_user_id # NoneText /\ IsSubstring(<<"<", "@">> \o bot_user_id \o <<">">>, t)

\* lines 189-228, up to the call of create_and_post_snippets
HandleMessage ==
    /\ hpc = Idle
    /\ \E ev \in inbox :
           /\ ev[1] = "message"
           /\ inbox' = inbox \ {ev}
           /\ IF \/ Strip(posted[ev[2]]) = <<>>
                 \/ SkipsMention(posted[ev[2]])
                 \/ ~is_table_like(posted[ev[2]])
              THEN /\ NoCall
                   /\ UNCHANGED hpc
              ELSE /\ StartCall(posted[ev[2]])
                   /\ hpc' = <<"message", ev[2]>>
    /\ UNCHANGED <<bot_user_id, posted, sent>>

\* re.sub(r'^<@[^>]+>\s*', '', t): a mention that starts the text is removed
\* with the spaces after it
FirstClose(t) == CHOOSE k \in 1..Len(t) : t[k] = ">" /\ \A j \in 1..(k - 1) : t[j] # ">"

StripLeadingMention(t) ==
    IF /\ StartsWith(t, <<"<", "@">>)
       /\ Contains(t, ">")
       /\ FirstClose(t) > 3
    THEN LStrip(Slice(t, FirstClose(t) + 1, Len(t)))
    ELSE t

\* line 157
text_without_mention(t) == Strip(StripLeadingMention(t))

\* lines 147-187, up to the call of create_and_post_snippets
HandleAppMention ==
    /\ hpc = Idle
    /\ \E ev \in inbox :
           /\ ev[1] = "app_mention"
           /\ inbox' = inbox \ {ev}
           /\ LET t == text_without_mention(posted[ev[2]])
              IN  IF t = <<>>
                  THEN /\ NoCall
                       /\ UNCHANGED <<hpc, sent>>
                  ELSE IF IsSubstring(BodyHelp, Lower(t))
                  THEN /\ sent' = Append(sent, <<ev[2], "app_mention", "help">>)
                       /\ NoCall
                       /\ UNCHANGED hpc
                  ELSE IF ~is_table_like(t)
                  THEN /\ sent' = Append(sent, <<ev[2], "app_mention", "no_table">>)
                       /\ NoCall
                       /\ UNCHANGED hpc
                  ELSE /\ StartCall(t)
                       /\ hpc' = <<"app_mention", ev[2]>>
                       /\ UNCHANGED sent
    /\ UNCHANGED <<bot_user_id, posted>>

\* max_tables of line 60
MaxTables == 25

\* lines 57-96: one upload for each table, then the trailing context
Snippets(ts, handler) ==
    [i \in 1..(IF Len(processed_tables) > MaxTables THEN MaxTables ELSE Len(processed_tables))
        |-> <<ts, handler, "file">>]
    \o (IF processed_tables # <<>> /\ final_context # <<>>
        THEN <<<<ts, handler, "context">>>>
        ELSE <<>>)

\* create_and_post_snippets once process_all_inputs has returned, lines 53-96
PostSnippets ==
    /\ hpc \notin {Unregistered, Idle}
    /\ pc = "done"
    /\ sent' = sent \o Snippets(hpc[2], hpc[1])
    /\ hpc' = Idle
    /\ pc' = "idle"
    /\ UNCHANGED <<bot_user_id, inbox, posted>>
    /\ UNCHANGED <<text, gate, lines, idx, current_table_lines, current_context_lines,
                   tables, trailing_context_lines, bi, processed_tables, final_context,
                   previous>>

NextSlack ==
    \/ RegisterHandlers
    \/ PostMessage
    \/ HandleMessage
    \/ HandleAppMention
    \/ Begin
    \/ ScanLine
    \/ Flush
    \/ NormalizeBlock
    \/ Finish
    \/ PostSnippets

SpecSlack == InitSlack /\ [][NextSlack]_vars

\* C26: a message whose text mentions the bot is never processed by
\* handle_message_events: what the bot sends for it comes from
\* handle_app_mention_events only, also when auth_test failed at start and no
\* user id was cached.
C26_MentionHandledOnce ==
    \A k \in 1..Len(sent) :
        MentionsBot(posted[sent[k][1]]) => sent[k][2] = "app_mention"


=============================================================================
